---------------------------- MODULE Spec2Model ----------------------------
(***************************************************************************)
(* A model of Nexus: the hash-chained ledger (MedicalBlockchain) and the   *)
(* encrypted record store with its access control and audit trail          *)
(* (MedicalDataManager).                                                   *)
(*                                                                         *)
(* Python dicts are TLA+ functions/records whose DOMAIN is the key set,    *)
(* Python lists are sequences.  "x in d" for a dict d is x \in DOMAIN d.   *)
(***************************************************************************)
EXTENDS Integers, Sequences, FiniteSets, TLC

(***************************************************************************)
(* Bounds of the model and the small input sets.                           *)
(***************************************************************************)
MaxTx == 2
MaxBlocks == 2
MaxClock == 1
PrefixSpace == 3
MaxStore == 4

\* Python values held in a record's data dict: an int, a tuple or a list.
PyInt(n) == [type |-> "int", items |-> <<n>>]
PyTuple(s) == [type |-> "tuple", items |-> s]
PyList(s) == [type |-> "list", items |-> s]

Users == {"alice", "bob"}
TxData == {[record_id |-> "0"]}
Keys == {"k1"}
Payloads == {[bp |-> PyInt(120)], [bp |-> PyInt(130)]}
Purposes == {"consult"}
RecordIndices == -1 .. 1
NewPayloads == {[bp |-> PyInt(120)]}
Grantors == {"alice"}
\* data: Dict[str, Any] with values of more than one Python type
AnyPayloads == {[bp |-> PyInt(120)], [bp |-> PyTuple(<<120, 80>>)]}

VARIABLES
    chain,                  \* MedicalBlockchain.chain
    pending_transactions,   \* MedicalBlockchain.pending_transactions
    records,                \* MedicalDataManager.records
    access_policies,        \* MedicalDataManager.access_policies
    encryption_key,         \* MedicalDataManager.encryption_key
    clock,                  \* what datetime.now() returns
    last,                   \* the most recent call: its name, the parties it
                            \* names, and how it ended
    threads,                \* the calls in progress when calls run concurrently:
                            \* for each thread its line and its local variables
    written,                \* history: the plaintext last handed to add_record
                            \* or update_record for each record position
    added                   \* history: every add_transaction call in the order
                            \* the calls were made, as the transaction it
                            \* built and the index it returned

ledger_vars == <<chain, pending_transactions>>
store_vars == <<records, access_policies, encryption_key>>
aux_vars == <<threads, written, added>>
vars == <<chain, pending_transactions, records, access_policies,
          encryption_key, clock, last, threads, written, added>>

Threads == {"t1", "t2"}
Idle == [pc |-> "idle"]

(***************************************************************************)
(* How a call ends: it raises, it returns None, or it returns a value.     *)
(***************************************************************************)
Raise(exception) == [outcome |-> "raise", value |-> exception]
ReturnNone == [outcome |-> "none", value |-> "None"]
Return(value) == [outcome |-> "return", value |-> value]

(***************************************************************************)
(* Hashing.  json.dumps(block, sort_keys=True) lists the keys the dict     *)
(* holds in sorted order; SHA-256 is modelled as a collision-free digest   *)
(* that wraps what it hashed.  The digest's first four hex characters are  *)
(* a number computed from everything that was hashed (HashPrefix); the     *)
(* model draws it from 0 .. PrefixSpace-1 where the code has 16^4 values.  *)
(***************************************************************************)
KeyOrder == <<"hash", "index", "nonce", "previous_hash", "timestamp", "transactions">>

json_dumps(block) ==
    LET keys == SelectSeq(KeyOrder, LAMBDA k : k \in DOMAIN block)
    IN  [i \in 1..Len(keys) |-> <<keys[i], block[keys[i]]>>]

sha256(text) == <<text>>

ZeroDigest == <<>>

_calculate_hash(block) == sha256(json_dumps(block))

HasField(ser, k) == \E i \in 1..Len(ser) : ser[i][1] = k

FieldOf(ser, k) == ser[CHOOSE i \in 1..Len(ser) : ser[i][1] = k][2]

UserCode(u) == IF u = "alice" THEN 1 ELSE 2

RECURSIVE TxsCode(_)
TxsCode(txs) ==
    IF txs = <<>> THEN 0
    ELSE 1 + UserCode(Head(txs).sender) + 2 * UserCode(Head(txs).recipient)
           + Head(txs).timestamp + TxsCode(Tail(txs))

RECURSIVE HashPrefix(_)
HashPrefix(h) ==
    IF h = ZeroDigest THEN 0
    ELSE LET ser == h[1]
         IN  ( FieldOf(ser, "index") + FieldOf(ser, "timestamp")
               + FieldOf(ser, "nonce")
               + TxsCode(FieldOf(ser, "transactions"))
               + HashPrefix(FieldOf(ser, "previous_hash"))
               + (IF HasField(ser, "hash")
                     THEN 1 + HashPrefix(FieldOf(ser, "hash")) ELSE 0)
             ) % PrefixSpace

_is_hash_valid(hash_string) == HashPrefix(hash_string) = 0

(***************************************************************************)
(* The ledger.                                                             *)
(***************************************************************************)
WithHash(block, h) ==
    [k \in DOMAIN block \cup {"hash"} |-> IF k = "hash" THEN h ELSE block[k]]

_create_genesis_block(now) ==
    LET genesis_block == [index |-> 0, timestamp |-> now, transactions |-> <<>>,
                          previous_hash |-> ZeroDigest, nonce |-> 0]
    IN  <<WithHash(genesis_block, _calculate_hash(genesis_block))>>

get_last_block(c) == c[Len(c)]

\* a search that counts before it tests, so that nonce 0 is never tried
RECURSIVE ProofOfWork_increment_first(_)
ProofOfWork_increment_first(new_block) ==
    LET next == [new_block EXCEPT !.nonce = @ + 1]
    IN  IF _is_hash_valid(_calculate_hash(next)) THEN next
        ELSE ProofOfWork_increment_first(next)

RECURSIVE ProofOfWork(_)
ProofOfWork(new_block) ==
    IF _is_hash_valid(_calculate_hash(new_block)) THEN new_block
    ELSE ProofOfWork([new_block EXCEPT !.nonce = @ + 1])

is_chain_valid(c) ==
    \A i \in 2..Len(c) :
        /\ c[i].previous_hash = c[i - 1].hash
        /\ _is_hash_valid(c[i].hash)
        /\ _calculate_hash(c[i]) = c[i].hash

RECURSIVE TxCount(_)
TxCount(c) == IF c = <<>> THEN 0 ELSE Len(Head(c).transactions) + TxCount(Tail(c))

TotalTx == TxCount(chain) + Len(pending_transactions)

\* an add_transaction that returns the index of the last block
add_transaction_returns_last_index(sender, recipient, data) ==
    /\ TotalTx < MaxTx
    /\ LET transaction == [sender |-> sender, recipient |-> recipient,
                           data |-> data, timestamp |-> clock]
       IN  pending_transactions' = Append(pending_transactions, transaction)
    /\ last' = [op |-> "add_transaction", args |-> [sender |-> sender, recipient |-> recipient],
                ret |-> Return(get_last_block(chain).index)]
    /\ UNCHANGED <<chain, clock>>
    /\ UNCHANGED store_vars

\* an add_transaction that puts the transaction at the front of the queue
add_transaction_at_front(sender, recipient, data) ==
    /\ TotalTx < MaxTx
    /\ LET transaction == [sender |-> sender, recipient |-> recipient,
                           data |-> data, timestamp |-> clock]
       IN  pending_transactions' = <<transaction>> \o pending_transactions
    /\ last' = [op |-> "add_transaction", args |-> [sender |-> sender, recipient |-> recipient],
                ret |-> Return(get_last_block(chain).index + 1)]
    /\ UNCHANGED <<chain, clock>>
    /\ UNCHANGED store_vars

add_transaction(sender, recipient, data) ==
    /\ TotalTx < MaxTx
    /\ LET transaction == [sender |-> sender, recipient |-> recipient,
                           data |-> data, timestamp |-> clock]
       IN  pending_transactions' = Append(pending_transactions, transaction)
    /\ last' = [op |-> "add_transaction", args |-> [sender |-> sender, recipient |-> recipient],
                ret |-> Return(get_last_block(chain).index + 1)]
    /\ UNCHANGED <<chain, clock>>
    /\ UNCHANGED store_vars

\* a block built on the first block of the chain instead of the last
MinedBlock_on_first(c, pending, now) ==
    LET previous_block == c[1]
        new_block == [index |-> previous_block.index + 1,
                      timestamp |-> now,
                      transactions |-> pending,
                      previous_hash |-> previous_block.hash,
                      nonce |-> 0]
        found == ProofOfWork(new_block)
    IN  WithHash(found, _calculate_hash(found))

\* a block whose stored hash is taken before the nonce search
MinedBlock_hash_before_search(c, pending, now) ==
    LET previous_block == get_last_block(c)
        new_block == [index |-> previous_block.index + 1,
                      timestamp |-> now,
                      transactions |-> pending,
                      previous_hash |-> previous_block.hash,
                      nonce |-> 0]
        found == ProofOfWork(new_block)
    IN  WithHash(found, _calculate_hash(new_block))

MinedBlock(c, pending, now) ==
    LET previous_block == get_last_block(c)
        new_block == [index |-> previous_block.index + 1,
                      timestamp |-> now,
                      transactions |-> pending,
                      previous_hash |-> previous_block.hash,
                      nonce |-> 0]
        found == ProofOfWork(new_block)
    IN  WithHash(found, _calculate_hash(found))

\* a mine_block that forgets to empty the pending queue
mine_block_keeps_pending(miner_address) ==
    /\ Len(chain) <= MaxBlocks
    /\ LET new_block == MinedBlock(chain, pending_transactions, clock)
       IN  /\ chain' = Append(chain, new_block)
           /\ last' = [op |-> "mine_block", args |-> [miner_address |-> miner_address],
                       ret |-> Return(new_block)]
    /\ UNCHANGED <<pending_transactions, clock>>
    /\ UNCHANGED store_vars

mine_block(miner_address) ==
    /\ Len(chain) <= MaxBlocks
    /\ LET new_block == MinedBlock(chain, pending_transactions, clock)
       IN  /\ chain' = Append(chain, new_block)
           /\ pending_transactions' = <<>>
           /\ last' = [op |-> "mine_block", args |-> [miner_address |-> miner_address],
                       ret |-> Return(new_block)]
    /\ UNCHANGED clock
    /\ UNCHANGED store_vars

\* a scan that matches the sender where the code matches the recipient
RECURSIVE patient_records_by_sender(_, _)
patient_records_by_sender(c, patient_address) ==
    IF c = <<>> THEN <<>>
    ELSE SelectSeq(Head(c).transactions, LAMBDA transaction :
                       transaction.sender = patient_address)
         \o patient_records_by_sender(Tail(c), patient_address)

\* the list get_patient_data builds: for block in chain, for transaction in
\* block["transactions"], append if transaction["recipient"] matches
RECURSIVE patient_records(_, _)
patient_records(c, patient_address) ==
    IF c = <<>> THEN <<>>
    ELSE SelectSeq(Head(c).transactions, LAMBDA transaction :
                       transaction.recipient = patient_address)
         \o patient_records(Tail(c), patient_address)

get_patient_data(patient_address) ==
    /\ last' = [op |-> "get_patient_data",
                args |-> [patient_address |-> patient_address],
                ret |-> Return(patient_records(chain, patient_address))]
    /\ UNCHANGED <<chain, pending_transactions, clock>>
    /\ UNCHANGED store_vars

(***************************************************************************)
(* The record store.  A Fernet token carries the key it was made with, the *)
(* time it was made at and the text it protects; decrypting with another   *)
(* key fails.  json.dumps(data) lists the dict's items, json.loads builds  *)
(* the dict back from them.  JSON has numbers and arrays: json.dumps writes *)
(* a tuple as an array, and json.loads reads every array as a list.        *)
(***************************************************************************)
json_value(v) == IF v.type = "tuple" THEN PyList(v.items) ELSE v

RECURSIVE DictItems(_, _)
DictItems(data, keys) ==
    IF keys = {} THEN <<>>
    ELSE LET k == CHOOSE x \in keys : TRUE
         IN  <<<<k, json_value(data[k])>>>> \o DictItems(data, keys \ {k})

json_dumps_data(data) == DictItems(data, DOMAIN data)

json_loads(text) ==
    [k \in {text[i][1] : i \in 1..Len(text)} |-> FieldOf(text, k)]

FernetEncrypt(key, text, now) == [key |-> key, timestamp |-> now, text |-> text]

FernetDecrypt(key, token) ==
    IF token.key = key THEN token.text ELSE <<<<"InvalidToken", token.key>>>>

_encrypt_data(key, data, now) == FernetEncrypt(key, json_dumps_data(data), now)

MedicalRecord(patient_id, data, key, now) ==
    [patient_id |-> patient_id,
     timestamp |-> now,
     encryption_handler |-> key,
     encrypted_data |-> _encrypt_data(key, data, now),
     access_log |-> <<>>]

decrypt_data(record) ==
    json_loads(FernetDecrypt(record.encryption_handler, record.encrypted_data))

\* a log_access that assigns the log where it should append to it
log_access_overwrite(record, accessor_id, purpose, now) ==
    [record EXCEPT !.access_log =
        <<[accessor_id |-> accessor_id, timestamp |-> now, purpose |-> purpose]>>]

\* a log_access that puts the new entry in front of the log
log_access_prepend(record, accessor_id, purpose, now) ==
    [record EXCEPT !.access_log =
        <<[accessor_id |-> accessor_id, timestamp |-> now, purpose |-> purpose]>> \o @]

log_access(record, accessor_id, purpose, now) ==
    [record EXCEPT !.access_log =
        Append(@, [accessor_id |-> accessor_id, timestamp |-> now,
                   purpose |-> purpose])]

InList(x, list) == \E i \in 1..Len(list) : list[i] = x

\* list.remove(x): drops the first occurrence of x
RECURSIVE ListRemove(_, _)
ListRemove(list, x) ==
    IF list = <<>> THEN <<>>
    ELSE IF Head(list) = x THEN Tail(list)
    ELSE <<Head(list)>> \o ListRemove(Tail(list), x)

\* list[i] for a Python index i: a negative i counts from the end
ListPos(list, i) == IF i < 0 THEN Len(list) + i + 1 ELSE i + 1

\* d[k] = v for a dict d
Put(d, k, v) == [x \in DOMAIN d \cup {k} |-> IF x = k THEN v ELSE d[x]]

\* a check that looks the grant up under the accessor instead of the patient
_check_access_permission_reversed(patient_id, accessor_id) ==
    \/ patient_id = accessor_id
    \/ /\ accessor_id \in DOMAIN access_policies
       /\ InList(patient_id, access_policies[accessor_id])

_check_access_permission(patient_id, accessor_id) ==
    \/ patient_id = accessor_id
    \/ /\ patient_id \in DOMAIN access_policies
       /\ InList(accessor_id, access_policies[patient_id])

\* an index test without the lower bound: Python then counts -1 from the end
IndexExists_no_lower_bound(patient_id, record_index) ==
    /\ patient_id \in DOMAIN records
    /\ record_index < Len(records[patient_id])

\* patient_id in self.records and 0 <= record_index < len(self.records[patient_id])
IndexExists(patient_id, record_index) ==
    /\ patient_id \in DOMAIN records
    /\ 0 <= record_index
    /\ record_index < Len(records[patient_id])

RECURSIVE SumOver(_, _)
SumOver(f, keys) ==
    IF keys = {} THEN 0
    ELSE LET k == CHOOSE x \in keys : TRUE
         IN  f[k] + SumOver(f, keys \ {k})

RecordCount(rs) == [p \in DOMAIN rs |-> Len(rs[p])]

RECURSIVE LogLength(_)
LogLength(list) ==
    IF list = <<>> THEN 0
    ELSE Len(Head(list).access_log) + LogLength(Tail(list))

TotalRecords == SumOver(RecordCount(records), DOMAIN records)

TotalLog == SumOver([p \in DOMAIN records |-> LogLength(records[p])], DOMAIN records)

TotalGrants ==
    SumOver([p \in DOMAIN access_policies |-> Len(access_policies[p])],
            DOMAIN access_policies)

\* what the store holds: records, audit entries and grants
Footprint == TotalRecords + TotalLog + TotalGrants

\* an add_record that starts the patient's list anew on every call
add_record_resets_list(patient_id, data) ==
    /\ Footprint < MaxStore
    /\ LET record == MedicalRecord(patient_id, data, encryption_key, clock)
           now_has == <<record>>
       IN  /\ records' = Put(records, patient_id, now_has)
           /\ last' = [op |-> "add_record",
                       args |-> [patient_id |-> patient_id],
                       ret |-> Return(ToString(Len(now_has) - 1))]
    /\ UNCHANGED <<access_policies, encryption_key, clock>>
    /\ UNCHANGED ledger_vars

add_record(patient_id, data) ==
    /\ Footprint < MaxStore
    /\ LET had == IF patient_id \in DOMAIN records THEN records[patient_id] ELSE <<>>
           record == MedicalRecord(patient_id, data, encryption_key, clock)
           now_has == Append(had, record)
       IN  /\ records' = Put(records, patient_id, now_has)
           /\ last' = [op |-> "add_record",
                       args |-> [patient_id |-> patient_id],
                       ret |-> Return(ToString(Len(now_has) - 1))]
    /\ UNCHANGED <<access_policies, encryption_key, clock>>
    /\ UNCHANGED ledger_vars

\* a get_record that writes the audit entry before it checks the permission
get_record_log_first(patient_id, record_index, accessor_id, purpose) ==
    LET Args == [patient_id |-> patient_id, accessor_id |-> accessor_id]
    IN
    /\ IF IndexExists(patient_id, record_index)
       THEN /\ Footprint < MaxStore
            /\ LET at == ListPos(records[patient_id], record_index)
                   record == log_access(records[patient_id][at], accessor_id,
                                        purpose, clock)
               IN  /\ records' = [records EXCEPT ![patient_id][at] = record]
                   /\ last' = [op |-> "get_record", args |-> Args,
                               ret |-> IF ~_check_access_permission(patient_id, accessor_id)
                                          THEN Raise("PermissionError")
                                          ELSE Return(decrypt_data(record))]
       ELSE /\ last' = [op |-> "get_record", args |-> Args,
                        ret |-> IF ~_check_access_permission(patient_id, accessor_id)
                                   THEN Raise("PermissionError")
                                   ELSE ReturnNone]
            /\ UNCHANGED records
    /\ UNCHANGED <<access_policies, encryption_key, clock>>
    /\ UNCHANGED ledger_vars

\* a get_record that answers a missing index the way it answers a denied caller
get_record_raises_on_missing(patient_id, record_index, accessor_id, purpose) ==
    LET Args == [patient_id |-> patient_id, accessor_id |-> accessor_id]
    IN
    /\ IF ~_check_access_permission(patient_id, accessor_id)
          \/ ~IndexExists(patient_id, record_index)
       THEN /\ last' = [op |-> "get_record", args |-> Args,
                        ret |-> Raise("PermissionError")]
            /\ UNCHANGED records
       ELSE /\ Footprint < MaxStore
            /\ LET at == ListPos(records[patient_id], record_index)
                   record == log_access(records[patient_id][at], accessor_id,
                                        purpose, clock)
               IN  /\ records' = [records EXCEPT ![patient_id][at] = record]
                   /\ last' = [op |-> "get_record",
                               args |-> Args,
                               ret |-> Return(decrypt_data(record))]
    /\ UNCHANGED <<access_policies, encryption_key, clock>>
    /\ UNCHANGED ledger_vars

\* a get_record that looks the index up before it checks the permission
get_record_lookup_first(patient_id, record_index, accessor_id, purpose) ==
    LET Args == [patient_id |-> patient_id, accessor_id |-> accessor_id]
    IN
    /\ IF ~IndexExists(patient_id, record_index)
       THEN /\ last' = [op |-> "get_record", args |-> Args,
                        ret |-> ReturnNone]
            /\ UNCHANGED records
       ELSE IF ~_check_access_permission(patient_id, accessor_id)
       THEN /\ last' = [op |-> "get_record", args |-> Args,
                        ret |-> Raise("PermissionError")]
            /\ UNCHANGED records
       ELSE /\ Footprint < MaxStore
            /\ LET at == ListPos(records[patient_id], record_index)
                   record == log_access(records[patient_id][at], accessor_id,
                                        purpose, clock)
               IN  /\ records' = [records EXCEPT ![patient_id][at] = record]
                   /\ last' = [op |-> "get_record",
                               args |-> Args,
                               ret |-> Return(decrypt_data(record))]
    /\ UNCHANGED <<access_policies, encryption_key, clock>>
    /\ UNCHANGED ledger_vars

get_record(patient_id, record_index, accessor_id, purpose) ==
    LET Args == [patient_id |-> patient_id, accessor_id |-> accessor_id]
    IN
    /\ IF ~_check_access_permission(patient_id, accessor_id)
       THEN /\ last' = [op |-> "get_record", args |-> Args,
                        ret |-> Raise("PermissionError")]
            /\ UNCHANGED records
       ELSE IF IndexExists(patient_id, record_index)
       THEN /\ Footprint < MaxStore
            /\ LET at == ListPos(records[patient_id], record_index)
                   record == log_access(records[patient_id][at], accessor_id,
                                        purpose, clock)
               IN  /\ records' = [records EXCEPT ![patient_id][at] = record]
                   /\ last' = [op |-> "get_record",
                               args |-> Args,
                               ret |-> Return(decrypt_data(record))]
       ELSE /\ last' = [op |-> "get_record", args |-> Args,
                        ret |-> ReturnNone]
            /\ UNCHANGED records
    /\ UNCHANGED <<access_policies, encryption_key, clock>>
    /\ UNCHANGED ledger_vars

get_patient_history(patient_id, accessor_id) ==
    LET Args == [patient_id |-> patient_id, accessor_id |-> accessor_id]
    IN
    /\ IF ~_check_access_permission(patient_id, accessor_id)
       THEN /\ last' = [op |-> "get_patient_history",
                        args |-> Args,
                        ret |-> Raise("PermissionError")]
            /\ UNCHANGED records
       ELSE IF patient_id \notin DOMAIN records
       THEN /\ last' = [op |-> "get_patient_history",
                        args |-> Args,
                        ret |-> Return(<<>>)]
            /\ UNCHANGED records
       ELSE /\ Footprint + Len(records[patient_id]) <= MaxStore
            /\ LET logged == [i \in 1..Len(records[patient_id]) |->
                                 log_access(records[patient_id][i], accessor_id,
                                            "History review", clock)]
                   history == [i \in 1..Len(logged) |-> decrypt_data(logged[i])]
               IN  /\ records' = [records EXCEPT ![patient_id] = logged]
                   /\ last' = [op |-> "get_patient_history",
                               args |-> Args,
                               ret |-> Return(history)]
    /\ UNCHANGED <<access_policies, encryption_key, clock>>
    /\ UNCHANGED ledger_vars

\* a grant_access that appends without looking whether the grant is there
grant_access_append_always(patient_id, accessor_id) ==
    /\ Footprint < MaxStore
    /\ LET policies == IF patient_id \notin DOMAIN access_policies
                          THEN Put(access_policies, patient_id, <<>>)
                          ELSE access_policies
       IN  access_policies' = [policies EXCEPT ![patient_id] = Append(@, accessor_id)]
    /\ last' = [op |-> "grant_access",
                args |-> [patient_id |-> patient_id, accessor_id |-> accessor_id],
                ret |-> ReturnNone]
    /\ UNCHANGED <<records, encryption_key, clock>>
    /\ UNCHANGED ledger_vars

grant_access(patient_id, accessor_id) ==
    LET Args == [patient_id |-> patient_id, accessor_id |-> accessor_id]
    IN
    /\ \/ Footprint < MaxStore
       \/ /\ patient_id \in DOMAIN access_policies
          /\ InList(accessor_id, access_policies[patient_id])
    /\ LET policies == IF patient_id \notin DOMAIN access_policies
                          THEN Put(access_policies, patient_id, <<>>)
                          ELSE access_policies
       IN  access_policies' =
               IF ~InList(accessor_id, policies[patient_id])
                  THEN [policies EXCEPT ![patient_id] = Append(@, accessor_id)]
                  ELSE policies
    /\ last' = [op |-> "grant_access", args |-> Args,
                ret |-> ReturnNone]
    /\ UNCHANGED <<records, encryption_key, clock>>
    /\ UNCHANGED ledger_vars

\* a revoke_access that empties the patient's whole grant list
revoke_access_clears_list(patient_id, accessor_id) ==
    /\ access_policies' =
           IF /\ patient_id \in DOMAIN access_policies
              /\ InList(accessor_id, access_policies[patient_id])
              THEN [access_policies EXCEPT ![patient_id] = <<>>]
              ELSE access_policies
    /\ last' = [op |-> "revoke_access",
                args |-> [patient_id |-> patient_id, accessor_id |-> accessor_id],
                ret |-> ReturnNone]
    /\ UNCHANGED <<records, encryption_key, clock>>
    /\ UNCHANGED ledger_vars

revoke_access(patient_id, accessor_id) ==
    LET Args == [patient_id |-> patient_id, accessor_id |-> accessor_id]
    IN
    /\ access_policies' =
           IF /\ patient_id \in DOMAIN access_policies
              /\ InList(accessor_id, access_policies[patient_id])
              THEN [access_policies EXCEPT ![patient_id] = ListRemove(@, accessor_id)]
              ELSE access_policies
    /\ last' = [op |-> "revoke_access", args |-> Args,
                ret |-> ReturnNone]
    /\ UNCHANGED <<records, encryption_key, clock>>
    /\ UNCHANGED ledger_vars

RECURSIVE ConcatLogs(_)
ConcatLogs(list) ==
    IF list = <<>> THEN <<>>
    ELSE Head(list).access_log \o ConcatLogs(Tail(list))

get_access_log(patient_id, accessor_id) ==
    LET Args == [patient_id |-> patient_id, accessor_id |-> accessor_id]
    IN
    /\ last' = [op |-> "get_access_log", args |-> Args,
                ret |-> IF ~_check_access_permission(patient_id, accessor_id)
                           THEN Raise("PermissionError")
                        ELSE IF patient_id \notin DOMAIN records
                           THEN Return(<<>>)
                        ELSE Return(ConcatLogs(records[patient_id]))]
    /\ UNCHANGED <<records, access_policies, encryption_key, clock>>
    /\ UNCHANGED ledger_vars

\* an update that starts the new record's log afresh
UpdatedRecord_fresh_log(record, patient_id, accessor_id, updated_data, key, now) ==
    log_access(MedicalRecord(patient_id, updated_data, key, now),
               accessor_id, "Record update", now)

\* the record update_record puts in place of `record`
UpdatedRecord(record, patient_id, accessor_id, updated_data, key, now) ==
    LET created == MedicalRecord(patient_id, updated_data, key, now)
        carried == [created EXCEPT !.access_log = record.access_log]
    IN  log_access(carried, accessor_id, "Record update", now)

update_record(patient_id, record_index, accessor_id, updated_data) ==
    LET Args == [patient_id |-> patient_id, accessor_id |-> accessor_id]
    IN
    /\ IF ~_check_access_permission(patient_id, accessor_id)
       THEN /\ last' = [op |-> "update_record", args |-> Args,
                        ret |-> Raise("PermissionError")]
            /\ UNCHANGED records
       ELSE IF IndexExists(patient_id, record_index)
       THEN /\ Footprint < MaxStore
            /\ LET at == ListPos(records[patient_id], record_index)
                   new_record == UpdatedRecord(records[patient_id][at], patient_id,
                                               accessor_id, updated_data,
                                               encryption_key, clock)
               IN  /\ records' = [records EXCEPT ![patient_id][at] = new_record]
                   /\ last' = [op |-> "update_record",
                               args |-> Args,
                               ret |-> Return(TRUE)]
       ELSE /\ last' = [op |-> "update_record", args |-> Args,
                        ret |-> Return(FALSE)]
            /\ UNCHANGED records
    /\ UNCHANGED <<access_policies, encryption_key, clock>>
    /\ UNCHANGED ledger_vars

(***************************************************************************)
(* The HTTP layer's record creation: data_manager.add_record for the       *)
(* authenticated user, then blockchain.add_transaction from and to that    *)
(* user with the record id and the request's timestamp as data.            *)
(***************************************************************************)
create_medical_record(current_user, patient_data, timestamp) ==
    /\ Footprint < MaxStore
    /\ TotalTx < MaxTx
    /\ LET had == IF current_user \in DOMAIN records
                     THEN records[current_user] ELSE <<>>
           record == MedicalRecord(current_user, patient_data, encryption_key, clock)
           now_has == Append(had, record)
           record_id == ToString(Len(now_has) - 1)
           transaction == [sender |-> current_user, recipient |-> current_user,
                           data |-> [record_id |-> record_id,
                                     timestamp |-> timestamp],
                           timestamp |-> clock]
       IN  /\ records' = Put(records, current_user, now_has)
           /\ pending_transactions' = Append(pending_transactions, transaction)
           /\ last' = [op |-> "create_medical_record",
                       args |-> [patient_id |-> current_user,
                                 accessor_id |-> current_user],
                       ret |-> Return([status |-> "success",
                                       record_id |-> record_id])]
    /\ UNCHANGED <<chain, access_policies, encryption_key, clock>>

(***************************************************************************)
(* The HTTP layer's access-control operation: POST                         *)
(* /access-control/{patient_id}/{accessor_id}?grant=..., called by the     *)
(* authenticated user current_user.  It answers 403 unless current_user is *)
(* the patient, and otherwise calls grant_access or revoke_access.         *)
(***************************************************************************)
HTTPException(status_code) == Raise(<<"HTTPException", status_code>>)

\* self.access_policies after grant_access(patient_id, accessor_id)
PoliciesAfterGrant(patient_id, accessor_id) ==
    LET policies == IF patient_id \notin DOMAIN access_policies
                       THEN Put(access_policies, patient_id, <<>>)
                       ELSE access_policies
    IN  IF ~InList(accessor_id, policies[patient_id])
           THEN [policies EXCEPT ![patient_id] = Append(@, accessor_id)]
           ELSE policies

\* self.access_policies after revoke_access(patient_id, accessor_id)
PoliciesAfterRevoke(patient_id, accessor_id) ==
    IF /\ patient_id \in DOMAIN access_policies
       /\ InList(accessor_id, access_policies[patient_id])
       THEN [access_policies EXCEPT ![patient_id] = ListRemove(@, accessor_id)]
       ELSE access_policies

\* a handler that lets any authenticated user manage any patient's grants
manage_access_control_unchecked(patient_id, accessor_id, grant, current_user) ==
    LET Args == [patient_id |-> patient_id, accessor_id |-> accessor_id,
                 grant |-> grant, current_user |-> current_user]
    IN
    /\ \/ ~grant
       \/ Footprint < MaxStore
       \/ /\ patient_id \in DOMAIN access_policies
          /\ InList(accessor_id, access_policies[patient_id])
    /\ access_policies' =
           IF grant THEN PoliciesAfterGrant(patient_id, accessor_id)
                    ELSE PoliciesAfterRevoke(patient_id, accessor_id)
    /\ last' = [op |-> "manage_access_control", args |-> Args,
                ret |-> Return([status |-> "success",
                                action |-> IF grant THEN "granted"
                                                    ELSE "revoked"])]
    /\ UNCHANGED <<records, encryption_key, clock>>
    /\ UNCHANGED ledger_vars

manage_access_control(patient_id, accessor_id, grant, current_user) ==
    LET Args == [patient_id |-> patient_id, accessor_id |-> accessor_id,
                 grant |-> grant, current_user |-> current_user]
    IN
    /\ IF current_user # patient_id
       THEN /\ last' = [op |-> "manage_access_control", args |-> Args,
                        ret |-> HTTPException(403)]
            /\ UNCHANGED access_policies
       ELSE /\ \/ ~grant
               \/ Footprint < MaxStore
               \/ /\ patient_id \in DOMAIN access_policies
                  /\ InList(accessor_id, access_policies[patient_id])
            /\ access_policies' =
                   IF grant THEN PoliciesAfterGrant(patient_id, accessor_id)
                            ELSE PoliciesAfterRevoke(patient_id, accessor_id)
            /\ last' = [op |-> "manage_access_control", args |-> Args,
                        ret |-> Return([status |-> "success",
                                        action |-> IF grant THEN "granted"
                                                            ELSE "revoked"])]
    /\ UNCHANGED <<records, encryption_key, clock>>
    /\ UNCHANGED ledger_vars

Tick ==
    /\ clock < MaxClock
    /\ clock' = clock + 1
    /\ UNCHANGED <<chain, pending_transactions, last>>
    /\ UNCHANGED store_vars

Init ==
    /\ clock = 0
    /\ chain = _create_genesis_block(0)
    /\ pending_transactions = <<>>
    /\ records = <<>>
    /\ access_policies = <<>>
    /\ encryption_key \in Keys
    /\ last = [op |-> "__init__", args |-> <<>>, ret |-> ReturnNone]
    /\ threads = [t \in Threads |-> Idle]
    /\ written = <<>>
    /\ added = <<>>

\* One call at a time on the ledger.
LedgerNext ==
    \/ \E sender \in Users, recipient \in Users, data \in TxData :
           add_transaction(sender, recipient, data) /\ UNCHANGED aux_vars
    \/ \E miner_address \in Users : mine_block(miner_address) /\ UNCHANGED aux_vars
    \/ \E patient_address \in Users :
           get_patient_data(patient_address) /\ UNCHANGED aux_vars
    \/ Tick /\ UNCHANGED aux_vars

SpecLedger == Init /\ [][LedgerNext]_vars

\* One call at a time on the record store.
StoreNext ==
    \/ \E patient_id \in Users, data \in NewPayloads :
           add_record(patient_id, data) /\ UNCHANGED aux_vars
    \/ \E patient_id \in Users, record_index \in RecordIndices,
          accessor_id \in Users, purpose \in Purposes :
           get_record(patient_id, record_index, accessor_id, purpose)
           /\ UNCHANGED aux_vars
    \/ \E patient_id \in Users, accessor_id \in Users :
           get_patient_history(patient_id, accessor_id) /\ UNCHANGED aux_vars
    \/ \E patient_id \in Grantors, accessor_id \in Users :
           grant_access(patient_id, accessor_id) /\ UNCHANGED aux_vars
    \/ \E patient_id \in Grantors, accessor_id \in Users :
           revoke_access(patient_id, accessor_id) /\ UNCHANGED aux_vars
    \/ \E patient_id \in Users, accessor_id \in Users :
           get_access_log(patient_id, accessor_id) /\ UNCHANGED aux_vars
    \/ \E patient_id \in Users, record_index \in RecordIndices,
          accessor_id \in Users, updated_data \in Payloads :
           update_record(patient_id, record_index, accessor_id, updated_data)
           /\ UNCHANGED aux_vars

SpecStore == Init /\ [][StoreNext]_vars

(***************************************************************************)
(* Calls on the ledger made by threads that run concurrently.  The code    *)
(* takes no lock, so a thread may be overtaken between any two lines; each *)
(* action below is one line (or one run of lines touching only locals) of  *)
(* a call.  new_block["transactions"] is the list object that              *)
(* self.pending_transactions names until line 60 binds a new list to that   *)
(* name: `shares` says whether a thread's block still holds the list that  *)
(* self.pending_transactions names, and `at` where in the chain the block  *)
(* is (0: not appended).                                                   *)
(***************************************************************************)
HasBlock(th) == th.pc \in {"55", "58", "59", "60", "61"}

\* the mine_block calls in progress that have not appended their block yet
Mining == {u \in Threads : threads[u].pc \in {"46", "55", "58", "59"}}

Miners == {"alice"}

\* the list that self.pending_transactions names grew by one transaction:
\* every block holding that list sees it
AppendShared(transaction) ==
    /\ pending_transactions' = Append(pending_transactions, transaction)
    /\ chain' = [k \in 1..Len(chain) |->
                   IF \E u \in Threads : /\ HasBlock(threads[u])
                                         /\ threads[u].shares
                                         /\ threads[u].at = k
                      THEN [chain[k] EXCEPT !.transactions = Append(@, transaction)]
                      ELSE chain[k]]

SharersAppended(th, transaction) ==
    IF HasBlock(th) /\ th.shares
       THEN [th EXCEPT !.new_block.transactions = Append(@, transaction)]
       ELSE th

\* lines 34-40: build the transaction and append it to the pending list
add_transaction_line40(t, sender, recipient, data) ==
    /\ threads[t] = Idle
    /\ TotalTx < MaxTx
    /\ LET transaction == [sender |-> sender, recipient |-> recipient,
                           data |-> data, timestamp |-> clock]
       IN  /\ AppendShared(transaction)
           /\ threads' = [u \in Threads |->
                  IF u = t THEN [pc |-> "41", sender |-> sender,
                                 recipient |-> recipient]
                  ELSE SharersAppended(threads[u], transaction)]
    /\ UNCHANGED <<clock, last, written, added>>
    /\ UNCHANGED store_vars

\* line 41: return self.get_last_block()["index"] + 1
add_transaction_line41(t) ==
    /\ threads[t].pc = "41"
    /\ last' = [op |-> "add_transaction",
                args |-> [sender |-> threads[t].sender,
                          recipient |-> threads[t].recipient],
                ret |-> Return(get_last_block(chain).index + 1)]
    /\ threads' = [threads EXCEPT ![t] = Idle]
    /\ UNCHANGED <<chain, pending_transactions, clock, written, added>>
    /\ UNCHANGED store_vars

\* line 45: previous_block = self.get_last_block()
mine_block_line45(t, miner_address) ==
    /\ threads[t] = Idle
    /\ Len(chain) + Cardinality(Mining) <= MaxBlocks
    /\ threads' = [threads EXCEPT ![t] =
                      [pc |-> "46", miner_address |-> miner_address,
                       previous_block |-> get_last_block(chain)]]
    /\ UNCHANGED <<chain, pending_transactions, clock, last, written, added>>
    /\ UNCHANGED store_vars

\* lines 46-52: new_block = {...}, its transactions being the pending list
mine_block_line46(t) ==
    /\ threads[t].pc = "46"
    /\ threads' = [threads EXCEPT ![t] =
          [pc |-> "55", miner_address |-> threads[t].miner_address,
           new_block |-> [index |-> threads[t].previous_block.index + 1,
                          timestamp |-> clock,
                          transactions |-> pending_transactions,
                          previous_hash |-> threads[t].previous_block.hash,
                          nonce |-> 0],
           shares |-> TRUE, at |-> 0]]
    /\ UNCHANGED <<chain, pending_transactions, clock, last, written, added>>
    /\ UNCHANGED store_vars

\* lines 55-56: one test of the loop condition and, if it fails, nonce += 1
mine_block_line55(t) ==
    /\ threads[t].pc = "55"
    /\ threads' = [threads EXCEPT ![t] =
          IF _is_hash_valid(_calculate_hash(threads[t].new_block))
             THEN [@ EXCEPT !.pc = "58"]
             ELSE [@ EXCEPT !.new_block.nonce = @ + 1]]
    /\ UNCHANGED <<chain, pending_transactions, clock, last, written, added>>
    /\ UNCHANGED store_vars

\* line 58: new_block["hash"] = self._calculate_hash(new_block)
mine_block_line58(t) ==
    /\ threads[t].pc = "58"
    /\ threads' = [threads EXCEPT ![t] =
          [@ EXCEPT !.pc = "59",
                    !.new_block = WithHash(threads[t].new_block,
                                           _calculate_hash(threads[t].new_block))]]
    /\ UNCHANGED <<chain, pending_transactions, clock, last, written, added>>
    /\ UNCHANGED store_vars

\* line 59: self.chain.append(new_block)
mine_block_line59(t) ==
    /\ threads[t].pc = "59"
    /\ chain' = Append(chain, threads[t].new_block)
    /\ threads' = [threads EXCEPT ![t] = [@ EXCEPT !.pc = "60", !.at = Len(chain) + 1]]
    /\ UNCHANGED <<pending_transactions, clock, last, written, added>>
    /\ UNCHANGED store_vars

\* line 60: self.pending_transactions = [] binds the name to a new list
mine_block_line60(t) ==
    /\ threads[t].pc = "60"
    /\ pending_transactions' = <<>>
    /\ threads' = [u \in Threads |->
          IF u = t THEN [threads[u] EXCEPT !.pc = "61", !.shares = FALSE]
          ELSE IF HasBlock(threads[u]) THEN [threads[u] EXCEPT !.shares = FALSE]
          ELSE threads[u]]
    /\ UNCHANGED <<chain, clock, last, written, added>>
    /\ UNCHANGED store_vars

\* line 61: return new_block
mine_block_line61(t) ==
    /\ threads[t].pc = "61"
    /\ last' = [op |-> "mine_block",
                args |-> [miner_address |-> threads[t].miner_address],
                ret |-> Return(threads[t].new_block)]
    /\ threads' = [threads EXCEPT ![t] = Idle]
    /\ UNCHANGED <<chain, pending_transactions, clock, written, added>>
    /\ UNCHANGED store_vars

ConcurrentLedgerNext ==
    \/ \E t \in Threads, sender \in Users, recipient \in Miners, data \in TxData :
           add_transaction_line40(t, sender, recipient, data)
    \/ \E t \in Threads : add_transaction_line41(t)
    \/ \E t \in Threads, miner_address \in Miners :
           mine_block_line45(t, miner_address)
    \/ \E t \in Threads : mine_block_line46(t)
    \/ \E t \in Threads : mine_block_line55(t)
    \/ \E t \in Threads : mine_block_line58(t)
    \/ \E t \in Threads : mine_block_line59(t)
    \/ \E t \in Threads : mine_block_line60(t)
    \/ \E t \in Threads : mine_block_line61(t)

SpecConcurrentLedger == Init /\ [][ConcurrentLedgerNext]_vars

(***************************************************************************)
(* add_record called by threads that run concurrently, each thread making  *)
(* one call; again one action per line.  Every line looks                  *)
(* self.records[patient_id] up anew.                                       *)
(***************************************************************************)
\* line 44: if patient_id not in self.records
add_record_line44(t, patient_id, data) ==
    /\ threads[t] = Idle
    /\ threads' = [threads EXCEPT ![t] =
          [pc |-> IF patient_id \notin DOMAIN records THEN "45" ELSE "47",
           patient_id |-> patient_id, data |-> data]]
    /\ UNCHANGED <<clock, last, written, added>>
    /\ UNCHANGED store_vars
    /\ UNCHANGED ledger_vars

\* line 45: self.records[patient_id] = []
add_record_line45(t) ==
    /\ threads[t].pc = "45"
    /\ records' = Put(records, threads[t].patient_id, <<>>)
    /\ threads' = [threads EXCEPT ![t] = [@ EXCEPT !.pc = "47"]]
    /\ UNCHANGED <<access_policies, encryption_key, clock, last, written, added>>
    /\ UNCHANGED ledger_vars

\* line 47: record = MedicalRecord(patient_id, data, self.encryption_key)
add_record_line47(t) ==
    /\ threads[t].pc = "47"
    /\ threads' = [threads EXCEPT ![t] =
          [pc |-> "48", patient_id |-> threads[t].patient_id,
           data |-> threads[t].data,
           record |-> MedicalRecord(threads[t].patient_id, threads[t].data,
                                    encryption_key, clock)]]
    /\ UNCHANGED <<clock, last, written, added>>
    /\ UNCHANGED store_vars
    /\ UNCHANGED ledger_vars

\* line 48: self.records[patient_id].append(record)
add_record_line48(t) ==
    /\ threads[t].pc = "48"
    /\ records' = [records EXCEPT ![threads[t].patient_id] =
                      Append(@, threads[t].record)]
    /\ threads' = [threads EXCEPT ![t] = [@ EXCEPT !.pc = "49"]]
    /\ UNCHANGED <<access_policies, encryption_key, clock, last, written, added>>
    /\ UNCHANGED ledger_vars

\* line 49: return str(len(self.records[patient_id]) - 1)
add_record_line49(t) ==
    /\ threads[t].pc = "49"
    /\ LET ret == Return(ToString(Len(records[threads[t].patient_id]) - 1))
       IN  /\ threads' = [threads EXCEPT ![t] =
                  [pc |-> "done", patient_id |-> threads[t].patient_id,
                   data |-> threads[t].data, ret |-> ret]]
           /\ last' = [op |-> "add_record",
                       args |-> [patient_id |-> threads[t].patient_id],
                       ret |-> ret]
    /\ UNCHANGED <<clock, written, added>>
    /\ UNCHANGED store_vars
    /\ UNCHANGED ledger_vars

ConcurrentStoreNext ==
    \/ \E t \in Threads, patient_id \in Users, data \in Payloads :
           add_record_line44(t, patient_id, data)
    \/ \E t \in Threads : add_record_line45(t)
    \/ \E t \in Threads : add_record_line47(t)
    \/ \E t \in Threads : add_record_line48(t)
    \/ \E t \in Threads : add_record_line49(t)

SpecConcurrentStore == Init /\ [][ConcurrentStoreNext]_vars

\* The record store behind the HTTP layer, with the ledger: records are
\* created through create_medical_record, updated by the store's
\* update_record, and blocks are mined.
ApiNext ==
    \/ \E current_user \in Users, patient_data \in NewPayloads :
           create_medical_record(current_user, patient_data, 0)
           /\ UNCHANGED aux_vars
    \/ \E patient_id \in Users, record_index \in RecordIndices,
          accessor_id \in Users, updated_data \in Payloads :
           update_record(patient_id, record_index, accessor_id, updated_data)
           /\ UNCHANGED aux_vars
    \/ \E miner_address \in Users : mine_block(miner_address) /\ UNCHANGED aux_vars

SpecApi == Init /\ [][ApiNext]_vars

(***************************************************************************)
(* Claims about the ledger, checked under SpecLedger.                      *)
(***************************************************************************)

\* C1: after any add_transaction and mine_block calls from genesis, with
\* nothing else touching the chain, is_chain_valid() is true.
C1_ChainValidAfterMining == is_chain_valid(chain)

\* The transaction lists a tamperer may put in a block.
TamperTransactions ==
    {<<>>} \cup {<<[sender |-> s, recipient |-> r, data |-> d, timestamp |-> 0]>> :
                    s \in Users, r \in Users, d \in TxData}

Tampered(c, i, txs) == [c EXCEPT ![i].transactions = txs]

\* C2: for every reachable chain and every block of it, the genesis block
\* included, putting other transactions in the block while leaving its
\* stored hash alone makes is_chain_valid() false.
C2_TamperDetected ==
    \A i \in 1..Len(chain) : \A txs \in TamperTransactions :
        txs # chain[i].transactions => ~is_chain_valid(Tampered(chain, i, txs))

\* The fields mine_block hashes: the block without its hash, with nonce n.
HashedFields(block, n) ==
    [index |-> block.index, timestamp |-> block.timestamp,
     transactions |-> block.transactions,
     previous_hash |-> block.previous_hash, nonce |-> n]

\* C9: every block appended by mine_block has a stored hash that satisfies
\* the difficulty predicate, that hash is the hash of the block with its
\* nonce, and no smaller nonce from 0 on gives a hash that satisfies it.
C9_MinedNonceIsSmallest ==
    \A k \in 2..Len(chain) :
        /\ _is_hash_valid(chain[k].hash)
        /\ chain[k].hash = _calculate_hash(HashedFields(chain[k], chain[k].nonce))
        /\ chain[k].nonce >= 0
        /\ \A n \in 0..(chain[k].nonce - 1) :
               ~_is_hash_valid(_calculate_hash(HashedFields(chain[k], n)))

\* A mined block whose search had to pass over at least two nonces.
C9_Witness == \E k \in 2..Len(chain) : chain[k].nonce >= 2

\* C10: a mine_block call extends the chain by exactly one block holding the
\* pending queue as it was, in order; it empties the queue, leaves the
\* earlier blocks as they were and returns the block it appended.
C10_MineBlockCommitsPending ==
    [][(\E miner_address \in Users : mine_block(miner_address)) =>
          /\ Len(chain') = Len(chain) + 1
          /\ SubSeq(chain', 1, Len(chain)) = chain
          /\ chain'[Len(chain')].transactions = pending_transactions
          /\ pending_transactions' = <<>>
          /\ last'.op = "mine_block"
          /\ last'.ret.outcome = "return"
          /\ last'.ret.value = chain'[Len(chain')]
      ]_vars

\* A second mined block that committed two different queued transactions,
\* the queue being empty afterwards.
C10_Witness ==
    /\ last.op = "mine_block"
    /\ Len(chain) = 3
    /\ Len(chain[3].transactions) = 2
    /\ chain[3].transactions[1] # chain[3].transactions[2]
    /\ pending_transactions = <<>>

\* The places <<k, j>> of the committed transactions whose recipient is S:
\* transaction j of block k.
CommittedFor(S) ==
    {p \in (1..Len(chain)) \X (1..MaxTx + 1) :
        /\ p[2] <= Len(chain[p[1]].transactions)
        /\ chain[p[1]].transactions[p[2]].recipient = S}

\* Place p comes before place q: an earlier block, or earlier in the block.
Before(p, q) == p[1] < q[1] \/ (p[1] = q[1] /\ p[2] < q[2])

\* C11: get_patient_data(S) returns exactly the committed transactions whose
\* recipient is S, by block and then by position in the block; pending
\* transactions and those S only sent are not in it; no state changes.
C11_PatientDataIsCommittedForRecipient ==
    [][\A S \in Users : get_patient_data(S) =>
          LET result == last'.ret.value
          IN  /\ last'.ret.outcome = "return"
              /\ Len(result) = Cardinality(CommittedFor(S))
              /\ \A p \in CommittedFor(S) :
                    result[1 + Cardinality({q \in CommittedFor(S) : Before(q, p)})]
                       = chain[p[1]].transactions[p[2]]
              /\ UNCHANGED <<chain, pending_transactions>>
              /\ UNCHANGED store_vars
      ]_vars

\* A scan for S that returned one committed transaction while the chain also
\* holds a transaction S only sent, or the queue holds one addressed to S.
C11_Witness ==
    /\ last.op = "get_patient_data"
    /\ Len(last.ret.value) = 1
    /\ LET S == last.args.patient_address
       IN  \/ \E i \in 1..Len(pending_transactions) :
                 pending_transactions[i].recipient = S
           \/ \E k \in 1..Len(chain) : \E j \in 1..Len(chain[k].transactions) :
                 /\ chain[k].transactions[j].sender = S
                 /\ chain[k].transactions[j].recipient # S

(***************************************************************************)
(* Claims about the record store, checked under SpecStore.  They are       *)
(* stated over the store's raw state, not over the operators of the model. *)
(***************************************************************************)
GatedOps == {"get_record", "get_patient_history", "update_record", "get_access_log"}

Party(S, A) == [patient_id |-> S, accessor_id |-> A]

\* (S, A) is an active grant
Granted(S, A) ==
    /\ S \in DOMAIN access_policies
    /\ \E k \in 1..Len(access_policies[S]) : access_policies[S][k] = A

Permitted(S, A) == A = S \/ Granted(S, A)

\* S has a record at index i (0-based, as the callers count)
HasRecord(S, i) ==
    /\ S \in DOMAIN records
    /\ i \in 0..(Len(records[S]) - 1)

NumRecords(rs, S) == IF S \in DOMAIN rs THEN Len(rs[S]) ELSE 0

RECURSIVE AuditLengthUpTo(_, _, _)
AuditLengthUpTo(rs, S, k) ==
    IF k = 0 THEN 0
    ELSE Len(rs[S][k].access_log) + AuditLengthUpTo(rs, S, k - 1)

\* the number of audit entries of all records of S
AuditLength(rs, S) == AuditLengthUpTo(rs, S, NumRecords(rs, S))

Entry(A, now, purpose) == [accessor_id |-> A, timestamp |-> now, purpose |-> purpose]

StoreUnchanged == UNCHANGED <<records, access_policies, encryption_key>>

\* C3: each of get_record, get_patient_history, update_record and
\* get_access_log for subject S by accessor A passes the access check if and
\* only if A = S or (S, A) is an active grant when it is called; otherwise
\* it raises PermissionError.
C3_GateIffSelfOrGranted ==
    [][last'.op \in GatedOps =>
          /\ (last'.ret.outcome # "raise")
                <=> Permitted(last'.args.patient_id, last'.args.accessor_id)
          /\ last'.ret.outcome = "raise" => last'.ret.value = "PermissionError"
      ]_vars

\* alice has granted bob, bob has a record, and alice is refused on it
C3_Witness ==
    /\ last.op = "get_record"
    /\ last.args = Party("bob", "alice")
    /\ last.ret.outcome = "raise"
    /\ Granted("alice", "bob")
    /\ "bob" \in DOMAIN records

\* C4: for A # S and an existing record i of S, get_record(S, i, A, _) is
\* refused while no grant (S, A) exists, returns the record when called
\* right after grant_access(S, A), and is refused when called right after
\* revoke_access(S, A), whatever was granted before.
C4_ReadFollowsGrantAndRevoke ==
    [][last'.op = "get_record" =>
          LET S == last'.args.patient_id
              A == last'.args.accessor_id
          IN  A # S =>
                \A i \in RecordIndices : \A purpose \in Purposes :
                   (HasRecord(S, i) /\ get_record(S, i, A, purpose))
                   => /\ ~Granted(S, A) => last'.ret.outcome = "raise"
                      /\ (last.op = "grant_access" /\ last.args = Party(S, A))
                            => last'.ret.outcome = "return"
                      /\ (last.op = "revoke_access" /\ last.args = Party(S, A))
                            => last'.ret.outcome = "raise"
      ]_vars

\* bob read alice's record under a grant, the grant is gone, bob is refused
C4_Witness ==
    /\ last.op = "get_record"
    /\ last.args = Party("alice", "bob")
    /\ last.ret.outcome = "raise"
    /\ "alice" \in DOMAIN records
    /\ \E k \in 1..Len(records["alice"][1].access_log) :
           records["alice"][1].access_log[k].accessor_id = "bob"
    /\ "alice" \in DOMAIN access_policies
    /\ ~Granted("alice", "bob")

\* C5: a get_record(S, i, A, purpose) that returns the record appends exactly
\* one entry, (A, purpose), to record i and so adds 1 to the audit length of
\* S; a get_patient_history(S, A) that returns appends one entry to every
\* record of S and so adds the number of records of S; the entries are in
\* place in the state in which the call has returned.
C5_AuditCompleteness ==
    [][(last'.op \in {"get_record", "get_patient_history"}
           /\ last'.ret.outcome = "return") =>
          LET S == last'.args.patient_id
              A == last'.args.accessor_id
          IN  /\ last'.op = "get_record" =>
                    \A i \in RecordIndices : \A purpose \in Purposes :
                       get_record(S, i, A, purpose)
                       => /\ HasRecord(S, i)
                          /\ records' = [records EXCEPT ![S][i + 1].access_log =
                                            Append(@, Entry(A, clock, purpose))]
                          /\ AuditLength(records', S) = AuditLength(records, S) + 1
              /\ last'.op = "get_patient_history" =>
                    /\ NumRecords(records', S) = NumRecords(records, S)
                    /\ Len(last'.ret.value) = NumRecords(records, S)
                    /\ \A k \in 1..NumRecords(records, S) :
                          records'[S][k].access_log =
                              Append(records[S][k].access_log,
                                     Entry(A, clock, "History review"))
                    /\ AuditLength(records', S)
                          = AuditLength(records, S) + NumRecords(records, S)
      ]_vars

\* a history read over two records, each of which got its entry
C5_Witness ==
    /\ last.op = "get_patient_history"
    /\ last.ret.outcome = "return"
    /\ Len(last.ret.value) = 2
    /\ AuditLength(records, last.args.patient_id) >= 2

\* the entries the step added to the log of record k of S
AddedEntries(S, k) ==
    LET old == IF S \in DOMAIN records /\ k <= Len(records[S])
                  THEN records[S][k].access_log ELSE <<>>
        new == records'[S][k].access_log
    IN  {new[j] : j \in (Len(old) + 1)..Len(new)}

\* C6: a gated operation called by an accessor who fails the access check
\* raises PermissionError and changes nothing; and every audit entry a step
\* adds names an accessor who passes the check when the step is taken.
C6_DeniedChangesNothing ==
    [][/\ ( /\ last'.op \in GatedOps
            /\ ~Permitted(last'.args.patient_id, last'.args.accessor_id) )
          => /\ last'.ret.outcome = "raise"
             /\ StoreUnchanged
             /\ UNCHANGED <<chain, pending_transactions, clock>>
       /\ \A S \in DOMAIN records' : \A k \in 1..Len(records'[S]) :
             \A e \in AddedEntries(S, k) : Permitted(S, e.accessor_id)
      ]_vars

\* bob, who holds no grant, was refused an update of a record alice has
C6_Witness ==
    /\ last.op = "update_record"
    /\ last.args = Party("alice", "bob")
    /\ last.ret.outcome = "raise"
    /\ "alice" \in DOMAIN records
    /\ ~Granted("alice", "bob")

\* C7: update_record(S, i, A, P) by an accessor who passes the access check,
\* where i is not an index of a record of S, returns false and leaves every
\* record, every access log and every grant as it was.
C7_UpdateOfMissingIsNoOp ==
    [][last'.op = "update_record" =>
          LET S == last'.args.patient_id
              A == last'.args.accessor_id
          IN  Permitted(S, A) =>
                \A i \in RecordIndices : \A P \in Payloads :
                   (~HasRecord(S, i) /\ update_record(S, i, A, P))
                   => /\ last'.ret.outcome = "return"
                      /\ last'.ret.value = FALSE
                      /\ StoreUnchanged
      ]_vars

\* bob, holding a grant, updated an index that alice's records do not have
C7_Witness ==
    /\ last.op = "update_record"
    /\ last.args = Party("alice", "bob")
    /\ last.ret.outcome = "return"
    /\ last.ret.value = FALSE
    /\ "alice" \in DOMAIN records
    /\ Granted("alice", "bob")

\* The part of C8 that is about the store: update_record(S, i, A, P) by a
\* permitted accessor on an existing index returns true; record i then
\* protects the serialisation of P, its log is the log it had followed by one
\* "Record update" entry of A, and no other record changes.  A permitted
\* get_record(S, i, ...) returns what the serialisation at record i reads as.
C8_UpdateReplacesAndLogs ==
    [][last'.op \in {"update_record", "get_record"} =>
          LET S == last'.args.patient_id
              A == last'.args.accessor_id
          IN  \A i \in RecordIndices :
                /\ (last'.op = "update_record" /\ Permitted(S, A) /\ HasRecord(S, i)) =>
                      \A P \in Payloads :
                         update_record(S, i, A, P)
                         => /\ last'.ret.outcome = "return"
                            /\ last'.ret.value = TRUE
                            /\ DOMAIN records' = DOMAIN records
                            /\ \A T \in DOMAIN records :
                                  /\ Len(records'[T]) = Len(records[T])
                                  /\ \A k \in 1..Len(records[T]) :
                                        (T # S \/ k # i + 1)
                                           => records'[T][k] = records[T][k]
                            /\ records'[S][i + 1].access_log =
                                  Append(records[S][i + 1].access_log,
                                         Entry(A, clock, "Record update"))
                            /\ records'[S][i + 1].encrypted_data.text
                                  = json_dumps_data(P)
                            /\ UNCHANGED access_policies
                /\ (last'.op = "get_record" /\ last'.ret.outcome = "return") =>
                      \A purpose \in Purposes :
                         get_record(S, i, A, purpose)
                         => json_dumps_data(last'.ret.value)
                               = records[S][i + 1].encrypted_data.text
      ]_vars

\* bob, holding a grant, updated a record of alice that had a log already
C8_Witness ==
    /\ last.op = "update_record"
    /\ last.args = Party("alice", "bob")
    /\ last.ret.outcome = "return"
    /\ last.ret.value = TRUE
    /\ Len(records["alice"][1].access_log) >= 2
    /\ records["alice"][1].access_log[1].purpose # "Record update"

\* How many times the grant list of S names A.
GrantCount(policies, S, A) ==
    IF S \in DOMAIN policies
       THEN Cardinality({i \in 1..Len(policies[S]) : policies[S][i] = A})
       ELSE 0

OtherPairsKept(S, A) ==
    \A T \in Users : \A B \in Users :
        (T # S \/ B # A)
           => GrantCount(access_policies', T, B) = GrantCount(access_policies, T, B)

\* C12: grant_access(S, A) leaves exactly one grant (S, A) and changes nothing
\* when the grant was there; revoke_access(S, A) leaves none, changes nothing
\* when there was none, and raises nothing; a pair is granted at most once;
\* repeating either call changes nothing; other pairs, records and audit
\* logs are untouched by both.
C12_GrantRevokeIdempotent ==
    [][/\ \A S \in Users : \A A \in Users :
             GrantCount(access_policies', S, A) <= 1
       /\ last'.op \in {"grant_access", "revoke_access"} =>
             LET S == last'.args.patient_id
                 A == last'.args.accessor_id
             IN  /\ grant_access(S, A) =>
                       /\ GrantCount(access_policies', S, A) = 1
                       /\ Granted(S, A) => access_policies' = access_policies
                       /\ (last.op = "grant_access" /\ last.args = Party(S, A))
                             => access_policies' = access_policies
                 /\ revoke_access(S, A) =>
                       /\ GrantCount(access_policies', S, A) = 0
                       /\ ~Granted(S, A) => access_policies' = access_policies
                       /\ (last.op = "revoke_access" /\ last.args = Party(S, A))
                             => access_policies' = access_policies
                 /\ last'.ret = ReturnNone
                 /\ OtherPairsKept(S, A)
                 /\ UNCHANGED <<records, encryption_key>>
      ]_vars

\* A revoke that ended one grant of a patient who has a record and whose
\* grant to another party is still there.
C12_Witness ==
    /\ last.op = "revoke_access"
    /\ LET S == last.args.patient_id
           A == last.args.accessor_id
       IN  /\ S \in DOMAIN access_policies
           /\ GrantCount(access_policies, S, A) = 0
           /\ \E B \in Users \ {A} : GrantCount(access_policies, S, B) = 1
           /\ S \in DOMAIN records

IsPrefix(s, t) == Len(s) <= Len(t) /\ SubSeq(t, 1, Len(s)) = s

\* C13: across every step of every operation, each record position (S, i)
\* still exists and its access log has the log before the step as a prefix.
C13_AuditLogAppendOnly ==
    [][\A S \in DOMAIN records :
          /\ S \in DOMAIN records'
          /\ Len(records'[S]) >= Len(records[S])
          /\ \A k \in 1..Len(records[S]) :
                IsPrefix(records[S][k].access_log, records'[S][k].access_log)
      ]_vars

\* A record that was read by a grantee, whose grant was then revoked, and
\* that was then replaced by an update: its log holds both entries in order.
C13_Witness ==
    /\ last.op = "update_record"
    /\ last.ret = Return(TRUE)
    /\ \E S \in DOMAIN records : \E k \in 1..Len(records[S]) :
          LET log == records[S][k].access_log
          IN  /\ Len(log) = 2
              /\ log[1].accessor_id # S
              /\ log[1].purpose \in Purposes
              /\ ~Granted(S, log[1].accessor_id)
              /\ log[2].purpose = "Record update"

(***************************************************************************)
(* Writes and reads of the record store with the history of what was       *)
(* written: `written` is told the plaintext of every add_record call and   *)
(* of every update_record call that a permitted accessor makes on an       *)
(* existing index.                                                         *)
(***************************************************************************)
WrittenAfterAdd(patient_id, data) ==
    Put(written, patient_id,
        Append(IF patient_id \in DOMAIN written THEN written[patient_id] ELSE <<>>,
               data))

WrittenAfterUpdate(patient_id, record_index, accessor_id, updated_data) ==
    IF Permitted(patient_id, accessor_id) /\ HasRecord(patient_id, record_index)
       THEN [written EXCEPT ![patient_id][record_index + 1] = updated_data]
       ELSE written

ReadWriteNext ==
    \/ \E patient_id \in Users, data \in AnyPayloads :
           /\ add_record(patient_id, data)
           /\ written' = WrittenAfterAdd(patient_id, data)
           /\ UNCHANGED <<threads, added>>
    \/ \E patient_id \in Users, record_index \in RecordIndices,
          accessor_id \in Users, updated_data \in AnyPayloads :
           /\ update_record(patient_id, record_index, accessor_id, updated_data)
           /\ written' = WrittenAfterUpdate(patient_id, record_index,
                                            accessor_id, updated_data)
           /\ UNCHANGED <<threads, added>>
    \/ \E patient_id \in Users, record_index \in RecordIndices,
          accessor_id \in Users, purpose \in Purposes :
           get_record(patient_id, record_index, accessor_id, purpose)
           /\ UNCHANGED aux_vars
    \/ \E patient_id \in Users, accessor_id \in Users :
           get_patient_history(patient_id, accessor_id) /\ UNCHANGED aux_vars
    \/ \E patient_id \in Grantors, accessor_id \in Users :
           grant_access(patient_id, accessor_id) /\ UNCHANGED aux_vars

SpecReadWrite == Init /\ [][ReadWriteNext]_vars

\* C8: a permitted get_record(S, i, ...) on a record whose latest log entry
\* is the "Record update" of an update_record(S, i, A, P) returns P.
C8_ReadAfterUpdateReturnsNewData ==
    [][(last'.op = "get_record" /\ last'.ret.outcome = "return") =>
          LET S == last'.args.patient_id
              A == last'.args.accessor_id
          IN  \A i \in RecordIndices : \A purpose \in Purposes :
                 ( /\ HasRecord(S, i)
                   /\ get_record(S, i, A, purpose)
                   /\ records[S][i + 1].access_log # <<>>
                   /\ records[S][i + 1].access_log[Len(records[S][i + 1].access_log)]
                         .purpose = "Record update" )
                 => last'.ret.value = written[S][i + 1]
      ]_vars

\* C14: a get_record that returns a plaintext returns the one last written
\* at that position by add_record or update_record; a get_patient_history
\* returns the last written plaintexts of all records of the subject, one
\* per record, in index order.
C14_ReadsReturnLastWritten ==
    [][(last'.op \in {"get_record", "get_patient_history"}
           /\ last'.ret.outcome = "return") =>
          LET S == last'.args.patient_id
              A == last'.args.accessor_id
          IN  /\ last'.op = "get_record" =>
                    \A i \in RecordIndices : \A purpose \in Purposes :
                       get_record(S, i, A, purpose)
                       => /\ HasRecord(S, i)
                          /\ last'.ret.value = written[S][i + 1]
              /\ (last'.op = "get_patient_history" /\ get_patient_history(S, A)) =>
                    /\ Len(last'.ret.value) = NumRecords(records, S)
                    /\ \A k \in 1..NumRecords(records, S) :
                          last'.ret.value[k] = written[S][k]
      ]_vars

\* C15: get_record(S, i, A, _) by an accessor who passes the access check,
\* where S has no record at index i, returns None: an outcome that is neither
\* the PermissionError of a denied call nor a returned plaintext; it appends
\* no audit entry and changes nothing in the store.
C15_MissingRecordReadsNone ==
    [][last'.op = "get_record" =>
          LET S == last'.args.patient_id
              A == last'.args.accessor_id
          IN  Permitted(S, A) =>
                \A i \in RecordIndices : \A purpose \in Purposes :
                   (~HasRecord(S, i) /\ get_record(S, i, A, purpose))
                   => /\ last'.ret = ReturnNone
                      /\ last'.ret.outcome # "raise"
                      /\ last'.ret.outcome # "return"
                      /\ AuditLength(records', S) = AuditLength(records, S)
                      /\ StoreUnchanged
      ]_vars

\* A grantee asked for an index the patient, who has a record, does not have.
C15_Witness ==
    /\ last.op = "get_record"
    /\ last.ret = ReturnNone
    /\ LET S == last.args.patient_id
           A == last.args.accessor_id
       IN  /\ A # S
           /\ Granted(S, A)
           /\ S \in DOMAIN records
           /\ Len(records[S]) = 1

\* add_record(patient_id, data) as called by the party `writer`: the method
\* takes no caller identity, so the call is the same whoever makes it.
add_record_called_by(writer, patient_id, data) == add_record(patient_id, data)

\* C16: a call of add_record for subject S made by S itself is accepted
\* whatever the grants are; made by another party that holds no grant from
\* S, it is rejected and stores nothing.
C16_WriteNeedsSelfOrGrant ==
    [][last'.op = "add_record" =>
          LET S == last'.args.patient_id
          IN  \A W \in Users : \A P \in NewPayloads :
                 add_record_called_by(W, S, P) =>
                    IF Permitted(S, W)
                       THEN /\ last'.ret.outcome = "return"
                            /\ NumRecords(records', S) = NumRecords(records, S) + 1
                       ELSE /\ last'.ret.outcome = "raise"
                            /\ UNCHANGED records
      ]_vars

\* The pending queue grew by exactly one transaction, addressed to S, whose
\* data is the record id and a timestamp and nothing else.
EmitsOneReference(S, record_id) ==
    /\ Len(pending_transactions') = Len(pending_transactions) + 1
    /\ SubSeq(pending_transactions', 1, Len(pending_transactions))
          = pending_transactions
    /\ LET transaction == pending_transactions'[Len(pending_transactions')]
       IN  /\ transaction.recipient = S
           /\ DOMAIN transaction.data = {"record_id", "timestamp"}
           /\ transaction.data.record_id = record_id

\* C17: every successful record creation and every successful record update
\* adds exactly one transaction to the pending queue, addressed to the
\* subject, whose data names the record and holds no plaintext.
C17_WritesAreAnchored ==
    [][/\ \A S \in Users : \A P \in NewPayloads :
             create_medical_record(S, P, 0)
                => EmitsOneReference(S, last'.ret.value.record_id)
       /\ (last'.op = "update_record" /\ last'.ret = Return(TRUE)) =>
             \A i \in RecordIndices : \A P \in Payloads :
                update_record(last'.args.patient_id, i,
                              last'.args.accessor_id, P)
                   => EmitsOneReference(last'.args.patient_id, ToString(i))
      ]_vars

\* The creation half of C17 on its own.
CreationIsAnchored ==
    [][\A S \in Users : \A P \in NewPayloads :
          create_medical_record(S, P, 0)
             => EmitsOneReference(S, last'.ret.value.record_id)
      ]_vars

\* C18: whatever add_transaction calls run beside a mine_block call, the
\* transactions of a block that is in the chain never change, and the stored
\* hash of every mined block is the hash of the block's fields as they are,
\* so that no block holds a transaction its hash was computed without.
C18_AppendedBlocksNeverChange ==
    [][/\ \A k \in 1..Len(chain) :
             chain'[k].transactions = chain[k].transactions
       /\ \A k \in 2..Len(chain') :
             chain'[k].hash
                = _calculate_hash(HashedFields(chain'[k], chain'[k].nonce))
      ]_vars

\* C19: whatever two mine_block calls do beside each other, no two blocks of
\* the chain have the same index or the same previous_hash, and every block's
\* previous_hash is the stored hash of the block before it.
C19_AppendsAreLinked ==
    /\ \A i \in 1..Len(chain) : \A j \in 1..Len(chain) :
          i # j => /\ chain[i].index # chain[j].index
                   /\ chain[i].previous_hash # chain[j].previous_hash
    /\ \A k \in 2..Len(chain) : chain[k].previous_hash = chain[k - 1].hash

\* int(record_id) for the string add_record returned
IndexOf(record_id) == CHOOSE n \in 0..2 : ToString(n) = record_id

\* C20: when the two threads have each completed an add_record call for the
\* same subject, both records are stored, the two calls returned different
\* indices, and at the index a call returned is the record that call made.
C20_ConcurrentWritesBothStored ==
    ( /\ \A t \in Threads : threads[t].pc = "done"
      /\ threads["t1"].patient_id = threads["t2"].patient_id )
    => LET S == threads["t1"].patient_id
       IN  /\ Len(records[S]) = 2
           /\ threads["t1"].ret # threads["t2"].ret
           /\ \A t \in Threads :
                 LET i == IndexOf(threads[t].ret.value)
                 IN  /\ i < Len(records[S])
                     /\ records[S][i + 1].encrypted_data.text
                           = json_dumps_data(threads[t].data)

(***************************************************************************)
(* Invariants of the ledger when its calls run one at a time.              *)
(***************************************************************************)

\* C21: in every state reached by add_transaction and mine_block calls the
\* chain is non-empty; its first block is the genesis block, with index 0, no
\* transactions and the all-zero digest as previous_hash; every later block
\* has its position as index and the stored hash of the block before it as
\* previous_hash; and no add_transaction or mine_block call fails.
C21_ChainHasNoHoles ==
    /\ Len(chain) >= 1
    /\ chain[1].index = 0
    /\ chain[1].transactions = <<>>
    /\ chain[1].previous_hash = ZeroDigest
    /\ \A k \in 2..Len(chain) :
          /\ chain[k].index = k - 1
          /\ chain[k].previous_hash = chain[k - 1].hash
    /\ last.op \in {"add_transaction", "mine_block"} => last.ret.outcome = "return"

\* Two blocks were mined after genesis, each holding a transaction.
C21_Witness ==
    /\ last.op = "mine_block"
    /\ Len(chain) = 3
    /\ chain[2].transactions # <<>>
    /\ chain[3].transactions # <<>>

\* the block without its hash field
WithoutHash(block) == [k \in DOMAIN block \ {"hash"} |-> block[k]]

\* C22: with calls made one at a time, every block of the chain, the genesis
\* block included, stores as hash the digest of the serialisation of its
\* other fields: index, timestamp, transactions, previous_hash and nonce.
C22_StoredHashIsHashOfOtherFields ==
    \A k \in 1..Len(chain) :
        /\ DOMAIN chain[k] = {"index", "timestamp", "transactions",
                              "previous_hash", "nonce", "hash"}
        /\ chain[k].hash = sha256(json_dumps(WithoutHash(chain[k])))

\* A mined block holding a transaction whose search went past nonce 0, the
\* clock having moved since genesis.
C22_Witness ==
    \E k \in 2..Len(chain) :
        /\ chain[k].nonce >= 1
        /\ chain[k].transactions # <<>>
        /\ chain[k].timestamp # chain[1].timestamp

(***************************************************************************)
(* The ledger, one call at a time, with the history of the add_transaction *)
(* calls: `added` is told, for every call, the transaction the call built  *)
(* from its arguments and the value the call returned.                     *)
(***************************************************************************)
Transaction(sender, recipient, data, now) ==
    [sender |-> sender, recipient |-> recipient, data |-> data, timestamp |-> now]

LedgerHistoryNext ==
    \/ \E sender \in Users, recipient \in Users, data \in TxData :
           /\ add_transaction(sender, recipient, data)
           /\ added' = Append(added,
                  [transaction |-> Transaction(sender, recipient, data, clock),
                   ret |-> last'.ret])
           /\ UNCHANGED <<threads, written>>
    \/ \E miner_address \in Users : mine_block(miner_address) /\ UNCHANGED aux_vars
    \/ Tick /\ UNCHANGED aux_vars

SpecLedgerHistory == Init /\ [][LedgerHistoryNext]_vars

\* the call, by its place in `added`, that put pending transaction i in the
\* queue: the queue holds the transactions of the latest calls
CallOfPending(i) == Len(added) - Len(pending_transactions) + i

\* C23: add_transaction does not fail; it appends exactly the one transaction
\* it built to the end of the pending queue and leaves the chain and the
\* store alone; and the next mine_block call that completes puts that
\* transaction in a block whose index is the value add_transaction returned.
C23_ReturnedIndexIsCommittingBlock ==
    [][/\ last'.op = "add_transaction" =>
             \A sender \in Users, recipient \in Users, data \in TxData :
                add_transaction(sender, recipient, data)
                => /\ last'.ret.outcome = "return"
                   /\ pending_transactions'
                         = Append(pending_transactions,
                                  Transaction(sender, recipient, data, clock))
                   /\ chain' = chain
                   /\ UNCHANGED store_vars
       /\ last'.op = "mine_block" =>
             ((\E miner_address \in Users : mine_block(miner_address))
              => \A i \in 1..Len(pending_transactions) :
                    LET call == added[CallOfPending(i)]
                        block == chain'[Len(chain')]
                    IN  /\ CallOfPending(i) >= 1
                        /\ call.transaction = pending_transactions[i]
                        /\ call.ret.outcome = "return"
                        /\ block.index = call.ret.value
                        /\ chain'[call.ret.value + 1] = block
                        /\ block.transactions[i] = call.transaction)
      ]_vars

\* A second block was mined; it committed two transactions, both added after
\* the first block was mined, and both calls had returned 2.
C23_Witness ==
    /\ last.op = "mine_block"
    /\ Len(chain) = 3
    /\ Len(added) = 2
    /\ added[1].ret = Return(2)
    /\ added[2].ret = Return(2)
    /\ chain[3].index = 2
    /\ chain[3].transactions = <<added[1].transaction, added[2].transaction>>

\* the transactions of all blocks, block after block
RECURSIVE ChainTransactions(_)
ChainTransactions(c) ==
    IF c = <<>> THEN <<>>
    ELSE Head(c).transactions \o ChainTransactions(Tail(c))

\* C25: with calls made one at a time, the transactions of the blocks in
\* chain order followed by the pending queue are the transactions of all
\* add_transaction calls ever made, in the order of the calls: none is lost,
\* doubled, moved, or in two blocks.
C25_TransactionsAreConserved ==
    ChainTransactions(chain) \o pending_transactions
        = [i \in 1..Len(added) |-> added[i].transaction]

\* Two different transactions were added, a block having been mined between
\* the two calls: the first is in that block, the second in the queue.
C25_Witness ==
    /\ Len(added) = 2
    /\ added[1].transaction # added[2].transaction
    /\ Len(chain) = 2
    /\ chain[2].transactions = <<added[1].transaction>>
    /\ pending_transactions = <<added[2].transaction>>

(***************************************************************************)
(* Further claims about the record store, checked under SpecStore.         *)
(***************************************************************************)

\* C24: add_record(S, P) returns, as a decimal string, the number of records
\* S had before the call, and stores the new record at that index, so the
\* indices of a subject run 0, 1, 2, ... with no gap and no reuse; it leaves
\* the records S had and all records of other subjects as they were; and no
\* step of any operation lowers the number of records of any subject.
C24_IndicesAreDenseAndRecordsStay ==
    [][/\ \A S \in Users : NumRecords(records', S) >= NumRecords(records, S)
       /\ last'.op = "add_record" =>
             LET S == last'.args.patient_id
                 n == NumRecords(records, S)
             IN  \A P \in NewPayloads :
                    add_record(S, P)
                    => /\ last'.ret = Return(ToString(n))
                       /\ NumRecords(records', S) = n + 1
                       /\ records'[S][n + 1].encrypted_data.text = json_dumps_data(P)
                       /\ records'[S][n + 1].access_log = <<>>
                       /\ \A k \in 1..n : records'[S][k] = records[S][k]
                       /\ \A T \in DOMAIN records \ {S} :
                             /\ T \in DOMAIN records'
                             /\ records'[T] = records[T]
      ]_vars

\* A second record was added for a subject whose first record has been read,
\* another subject having a record too; the call returned "1".
C24_Witness ==
    /\ last.op = "add_record"
    /\ last.ret = Return("1")
    /\ LET S == last.args.patient_id
       IN  /\ Len(records[S]) = 2
           /\ records[S][1].access_log # <<>>
           /\ \E T \in DOMAIN records : T # S /\ records[T] # <<>>

\* what a caller who is refused sees of a call: it depends on the operation
\* and the two parties, and on nothing the store holds
DeniedOutcome(op, S, A) ==
    [op |-> op, args |-> Party(S, A), ret |-> Raise("PermissionError")]

\* C26: for an accessor A other than S who holds no grant from S, each of
\* get_record, get_patient_history, update_record and get_access_log on S
\* ends in the same PermissionError in every state, whether S has records or
\* not, however many, and whether the index asked for exists; the call
\* leaves no trace in the store either.
C26_DenialIndependentOfStore ==
    [][last'.op \in GatedOps =>
          LET S == last'.args.patient_id
              A == last'.args.accessor_id
          IN  (A # S /\ ~Granted(S, A))
                 => /\ last' = DeniedOutcome(last'.op, S, A)
                    /\ last'.op = "get_record" =>
                          \A i \in RecordIndices : \A purpose \in Purposes :
                             get_record(S, i, A, purpose)
                                => last'.ret = Raise("PermissionError")
                    /\ last'.op = "update_record" =>
                          \A i \in RecordIndices : \A P \in Payloads :
                             update_record(S, i, A, P)
                                => last'.ret = Raise("PermissionError")
                    /\ StoreUnchanged
      ]_vars

\* A caller without a grant was refused a record of a subject who has none,
\* the caller having records of its own.
C26_Witness ==
    /\ last.op = "get_record"
    /\ last.ret = Raise("PermissionError")
    /\ LET S == last.args.patient_id
           A == last.args.accessor_id
       IN  /\ A # S
           /\ ~Granted(S, A)
           /\ S \notin DOMAIN records
           /\ A \in DOMAIN records

(***************************************************************************)
(* The HTTP layer's operations that reach the grants: records are created  *)
(* through create_medical_record and grants are managed through            *)
(* manage_access_control, by any authenticated user for any patient.       *)
(***************************************************************************)
AccessApiNext ==
    \/ \E patient_id \in Users, accessor_id \in Users, grant \in BOOLEAN,
          current_user \in Users :
           manage_access_control(patient_id, accessor_id, grant, current_user)
           /\ UNCHANGED aux_vars
    \/ \E current_user \in Users, patient_data \in NewPayloads :
           create_medical_record(current_user, patient_data, 0)
           /\ UNCHANGED aux_vars

SpecAccessApi == Init /\ [][AccessApiNext]_vars

\* the parties S has granted
GrantSet(policies, S) ==
    IF S \in DOMAIN policies
       THEN {policies[S][k] : k \in 1..Len(policies[S])}
       ELSE {}

\* C27: through the API the grants of a subject S change only in an
\* access-control request for S made by S; a grant or revoke request for S
\* made by anyone else is answered 403 and leaves every grant as it was.
C27_OnlyPatientManagesGrants ==
    [][/\ last'.op = "manage_access_control" =>
             (last'.args.current_user # last'.args.patient_id
                => /\ last'.ret = HTTPException(403)
                   /\ access_policies' = access_policies
                   /\ UNCHANGED <<records, encryption_key>>)
       /\ \A S \in Users :
             GrantSet(access_policies', S) # GrantSet(access_policies, S)
                => /\ last'.op = "manage_access_control"
                   /\ last'.args.patient_id = S
                   /\ last'.args.current_user = S
                   /\ last'.ret.outcome = "return"
      ]_vars

\* Someone other than the patient asked to revoke a grant the patient has
\* given; the request was refused and the grant is still there.
C27_Witness ==
    /\ last.op = "manage_access_control"
    /\ last.ret = HTTPException(403)
    /\ ~last.args.grant
    /\ last.args.current_user # last.args.patient_id
    /\ Granted(last.args.patient_id, last.args.accessor_id)

=============================================================================
